---- MODULE Spec2Model ----
(***************************************************************************)
(* Boundary adapter of reed-solomon-erasure.wasm: the singleton lifecycle  *)
(* (getInstance / clearInstance, src/src/index.ts:26-110) and the shard    *)
(* marshaler (encode / reconstruct, src/src/index.ts:244-382).             *)
(*                                                                         *)
(* A handle is identified by the number of the instantiation that built    *)
(* it (every instantiation runs `new ReedSolomonErasure`, so two           *)
(* instantiations never yield the same object); a promise is identified    *)
(* by the same number; an error by the number of the instantiation that    *)
(* raised it.                                                              *)
(***************************************************************************)
EXTENDS Integers, Sequences, FiniteSets, TLC

\* ------------------------------------------------------------------ bounds
MaxCalls == 3      \* getInstance calls issued in one behaviour
MaxLoads == 2      \* instantiations started in one behaviour
MaxClears == 1     \* clearInstance calls in one behaviour

\* `null` of the two module-level slots (index.ts:27-28)
NULL == 0

\* the wasmUrl argument of getInstance: absent, or one of two URLs
WasmUrls == {"undefined", "A", "B"}

VARIABLES
    isBrowser,        \* index.ts:24, fixed when the module is loaded
    cachedInstance,   \* index.ts:27: NULL or the cached handle
    loadingPromise,   \* index.ts:28: NULL or the promise of an instantiation
    loads,            \* the instantiations started so far, in order
    calls,            \* the getInstance calls issued so far, in order
    clears,           \* history: number of clearInstance calls so far
    sinceClear,       \* history: the last API call was clearInstance
    firstCached,      \* history: first handle cached since the last clear
    memBuf,           \* identity of exports.memory.buffer (index.ts:11)
    memoryCache,      \* index.ts:67: NULL or the buffer the cached view is over
    outstanding,      \* regions acquired from the engine and not released
    held,             \* the regions of engine memory that are not released
    faults,           \* history: marshaling calls that ended by raising
    shards,           \* the caller's shard buffer (a Uint8Array it owns)
    dataShards,       \* the caller's data shard count
    parityShards,     \* the caller's parity shard count
    shardsAvailable,  \* the caller's availability vector
    last,             \* history: the last marshaling call and its steps
    encoded,          \* history: what each encode that returned OK was given and left
    message,          \* history: the last getResultMessage call and its text
    hasInstantiateStreaming,  \* index.ts:152: the runtime has instantiateStreaming
    response,         \* index.ts:149: the Response that `source` settles to
    bodies,           \* the body of the response and of its clone (index.ts:155)
    fromResponse,     \* the position of the fromResponse call and its outcome
    inProgress,       \* the marshaling calls suspended between two of their steps
    marshaled         \* history: number of marshaling calls begun step by step

lifecycleVars == <<isBrowser, cachedInstance, loadingPromise, loads, calls,
                   clears, sinceClear, firstCached>>

marshalVars == <<memBuf, memoryCache, outstanding, held, faults,
                 shards, dataShards, parityShards, shardsAvailable, last, encoded, message>>

responseVars == <<hasInstantiateStreaming, response, bodies, fromResponse>>

threadVars == <<inProgress, marshaled>>

vars == <<isBrowser, cachedInstance, loadingPromise, loads, calls,
          clears, sinceClear, firstCached,
          memBuf, memoryCache, outstanding, held, faults,
          shards, dataShards, parityShards, shardsAvailable, last, encoded, message,
          hasInstantiateStreaming, response, bodies, fromResponse,
          inProgress, marshaled>>

\* ------------------------------------------------------- singleton lifecycle

\* index.ts:78 `if (cachedInstance)`
HasCached == cachedInstance # NULL

\* index.ts:82 `if (loadingPromise)`, with the bug of never joining
ShouldJoin_Never == FALSE

\* index.ts:82 `if (loadingPromise)`
ShouldJoin == loadingPromise # NULL

\* index.ts:86-96: which loader getInstance starts for a wasmUrl
StartLoader(wasmUrl) ==
    IF wasmUrl # "undefined"
    THEN IF isBrowser THEN "fromResponse" ELSE "loadWasmBytesNode"
    ELSE "fromCurrentDirectory"

\* the instantiation whose promise call c waits on
LoadOf(c) == loads[calls[c].prom]

\* the starter of instantiation k has run its continuation to the end
StarterDone(k) ==
    \E c \in DOMAIN calls :
        /\ calls[c].kind = "start"
        /\ calls[c].prom = k
        /\ calls[c].pc \in {"returned", "threw"}

\* history fields every call records when it is issued
Issued(wasmUrl) ==
    [ url        |-> wasmUrl,
      epoch      |-> clears,
      afterClear |-> sinceClear,
      seenFirst  |-> firstCached,
      cached     |-> cachedInstance,
      pending    |-> {k \in DOMAIN loads : loads[k].state = "pending"},
      inFlight   |-> /\ cachedInstance = NULL
                     /\ \/ loadingPromise = NULL
                        \/ loads[loadingPromise].state = "pending",
      late       |-> /\ cachedInstance = NULL
                     /\ loadingPromise # NULL
                     /\ StarterDone(loadingPromise) ]

\* index.ts:77-98: the synchronous part of getInstance, up to its await
GetInstance(wasmUrl) ==
    /\ Len(calls) < MaxCalls
    /\ IF HasCached
       THEN \* index.ts:79 `return cachedInstance`
            /\ calls' = Append(calls,
                   [ kind |-> "hit", pc |-> "returned", prom |-> NULL,
                     result |-> cachedInstance, hist |-> Issued(wasmUrl) ])
            /\ UNCHANGED <<cachedInstance, loadingPromise, loads>>
       ELSE IF ShouldJoin
       THEN \* index.ts:83 `return loadingPromise`
            /\ calls' = Append(calls,
                   [ kind |-> "join", pc |-> "joined", prom |-> loadingPromise,
                     result |-> NULL, hist |-> Issued(wasmUrl) ])
            /\ UNCHANGED <<cachedInstance, loadingPromise, loads>>
       ELSE \* index.ts:86-98: start an instantiation and await it
            /\ Len(loads) < MaxLoads
            /\ loads' = Append(loads,
                   [ state |-> "pending", via |-> StartLoader(wasmUrl),
                     url |-> wasmUrl, epoch |-> clears ])
            /\ loadingPromise' = Len(loads) + 1
            /\ calls' = Append(calls,
                   [ kind |-> "start", pc |-> "awaiting", prom |-> Len(loads) + 1,
                     result |-> NULL, hist |-> Issued(wasmUrl) ])
            /\ UNCHANGED cachedInstance
    /\ sinceClear' = FALSE
    /\ UNCHANGED <<isBrowser, clears, firstCached>>
    /\ UNCHANGED marshalVars
    /\ UNCHANGED responseVars
    /\ UNCHANGED threadVars

\* index.ts:107-110
ClearInstance ==
    /\ clears < MaxClears
    /\ cachedInstance' = NULL
    /\ loadingPromise' = NULL
    /\ clears' = clears + 1
    /\ sinceClear' = TRUE
    /\ firstCached' = NULL
    /\ UNCHANGED <<isBrowser, loads, calls>>
    /\ UNCHANGED marshalVars
    /\ UNCHANGED responseVars
    /\ UNCHANGED threadVars

\* The promise of instantiation k settles: the loader (index.ts:119-191)
\* either builds a handle or raises.
Settle(k, ok) ==
    /\ k \in DOMAIN loads
    /\ loads[k].state = "pending"
    /\ loads' = [loads EXCEPT ![k].state = IF ok THEN "resolved" ELSE "rejected"]
    /\ UNCHANGED <<isBrowser, cachedInstance, loadingPromise, calls,
                   clears, sinceClear, firstCached>>
    /\ UNCHANGED marshalVars
    /\ UNCHANGED responseVars
    /\ UNCHANGED threadVars

\* index.ts:98 with the bug of swallowing the rejection: the call returns
\* whatever is cached
ResumeRejected_Swallow(c) ==
    /\ calls' = [calls EXCEPT ![c].pc = "returned", ![c].result = cachedInstance]
    /\ UNCHANGED <<cachedInstance, loadingPromise, firstCached>>

\* index.ts:98: `await loadingPromise` raises in the starter; lines 99-101 are
\* skipped, so the slot is left as it is and the call rejects with that error
ResumeRejected(c) ==
    /\ calls' = [calls EXCEPT ![c].pc = "threw", ![c].result = calls[c].prom]
    /\ UNCHANGED <<cachedInstance, loadingPromise, firstCached>>

\* index.ts:98-101 with the bug of leaving out line 99: the handle is cached
\* and the in-flight marker stays
ResumeResolved_KeepMarker(c) ==
    /\ cachedInstance' = calls[c].prom
    /\ UNCHANGED loadingPromise
    /\ calls' = [calls EXCEPT ![c].pc = "returned", ![c].result = cachedInstance']
    /\ firstCached' = IF firstCached = NULL THEN cachedInstance' ELSE firstCached

\* index.ts:98-101: the continuation of the starter after a resolved await
ResumeResolved(c) ==
    /\ cachedInstance' = calls[c].prom
    /\ loadingPromise' = NULL
    /\ calls' = [calls EXCEPT ![c].pc = "returned", ![c].result = cachedInstance']
    /\ firstCached' = IF firstCached = NULL THEN cachedInstance' ELSE firstCached

\* index.ts:98-101: the starter resumes once its promise has settled
Resume(c) ==
    /\ c \in DOMAIN calls
    /\ calls[c].pc = "awaiting"
    /\ LoadOf(c).state # "pending"
    /\ IF LoadOf(c).state = "resolved" THEN ResumeResolved(c) ELSE ResumeRejected(c)
    /\ UNCHANGED <<isBrowser, loads, clears, sinceClear>>
    /\ UNCHANGED marshalVars
    /\ UNCHANGED responseVars
    /\ UNCHANGED threadVars

\* index.ts:83: a call that returned loadingPromise settles as that promise does
Deliver(c) ==
    /\ c \in DOMAIN calls
    /\ calls[c].pc = "joined"
    /\ LoadOf(c).state # "pending"
    /\ calls' = [calls EXCEPT
                   ![c].pc = IF LoadOf(c).state = "resolved" THEN "returned" ELSE "threw",
                   ![c].result = calls[c].prom]
    /\ UNCHANGED <<isBrowser, cachedInstance, loadingPromise, loads,
                   clears, sinceClear, firstCached>>
    /\ UNCHANGED marshalVars
    /\ UNCHANGED responseVars
    /\ UNCHANGED threadVars

\* ------------------------------------------------------------ shard marshaler

MemSize == 7         \* bytes of the engine's linear memory that are modelled
MaxShardsLen == 3    \* length of the caller's shard buffer
MaxShards == 2       \* dataShards and parityShards range over 0..MaxShards
MaxAvail == 3        \* length of the availability vector
MaxGrow == 1         \* times the engine's memory is replaced by a grown one
MaxFaults == 1       \* marshaling calls that end by raising

\* index.ts:52
RESULT_OK == 0
\* index.ts:62
RESULT_ERROR_TOO_FEW_SHARDS_PRESENT == 10
\* a number outside the table of index.ts:52-65 (the test's unknown code)
UnknownCode == 999

\* the non-OK numbers the engine is let to return in this model
ErrorCodes == {RESULT_ERROR_TOO_FEW_SHARDS_PRESENT, UnknownCode}

\* a call that raised has no result
NoResult == 0 - 1

Addr == 0..(MemSize - 1)
Min(a, b) == IF a < b THEN a ELSE b
Max(a, b) == IF a > b THEN a ELSE b

\* The adapter only copies shard bytes and never inspects them, so one buffer
\* per length stands for all. A byte's value tells where it came from: at
\* index i, 10 + i is the byte the caller supplied, 20 + i the parity the
\* engine computes from the supplied data, 30 + i a byte the engine computes
\* from anything else, 40 + i a byte of the engine's scratch work; 0 is a byte
\* the caller zeroed and 255 a byte of memory nothing wrote.
CallerBytes(n) == [i \in 1..n |-> 10 + i]
ParityBytes(n) == [i \in 1..n |-> 20 + i]
DerivedBytes(n) == [i \in 1..n |-> 30 + i]
ScratchBytes(n) == [i \in 1..n |-> 40 + i]
FreshMemory == [a \in Addr |-> 255]

ShardCounts == 0..MaxShards
AvailVectors == UNION {[1..n -> BOOLEAN] : n \in 0..MaxAvail}

\* one boundary step of a marshaling call: what was called, on which region,
\* through a view over which buffer, while which buffer was the memory's
Step(op, ptr, len, view, buf) ==
    [op |-> op, ptr |-> ptr, len |-> len, view |-> view, buf |-> buf]

\* The handle's state as a marshaling call starts. The adapter writes every
\* region it acquires before anything reads it, so the bytes the memory held
\* before the call are immaterial.
Enter ==
    [ buf |-> memBuf, cache |-> memoryCache, mem |-> FreshMemory,
      out |-> outstanding, trace |-> <<>>, threw |-> FALSE,
      result |-> NoResult, seen |-> FreshMemory,
      code |-> NoResult, args |-> <<>>, held |-> held ]

\* index.ts:372-382 with the bug of never re-deriving a cached view
GetUint8Memory_NoIdentityCheck(h) ==
    IF h.cache = NULL THEN [h EXCEPT !.cache = h.buf] ELSE h

\* index.ts:372-382: the cached view, re-derived when the memory's buffer is
\* not the one the view is over
GetUint8Memory(h) ==
    IF h.cache = NULL \/ h.cache # h.buf THEN [h EXCEPT !.cache = h.buf] ELSE h

\* length of the handle's cached view: a view over a buffer the memory has
\* replaced is detached and has length 0
ViewLength(h) == IF h.cache = h.buf THEN MemSize ELSE 0

\* index.ts:249, 297, 301: `this.getUint8Memory().set(bytes, ptr)`; set raises
\* a RangeError when the bytes do not fit in the view
MemSet(h, bytes, ptr) ==
    IF h.threw THEN h
    ELSE LET g == GetUint8Memory(h) IN
         IF ptr + Len(bytes) > ViewLength(g)
         THEN [g EXCEPT !.threw = TRUE,
                        !.trace = Append(@, Step("set", ptr, Len(bytes), g.cache, g.buf))]
         ELSE [g EXCEPT
                 !.mem = [a \in Addr |->
                            IF a >= ptr /\ a < ptr + Len(bytes)
                            THEN bytes[a - ptr + 1] ELSE g.mem[a]],
                 !.trace = Append(@, Step("set", ptr, Len(bytes), g.cache, g.buf))]

\* the offsets at which a region of len bytes lies inside memory, above
\* offset 0 (the null pointer), and overlaps no region of taken
Fits(len, taken) ==
    {a \in 1..(MemSize - len) :
        \A r \in taken : a + len <= r.ptr \/ r.ptr + r.len <= a}

\* the allocator places a region at the lowest offset that fits
FirstFit(len, taken) ==
    {a \in Fits(len, taken) : \A b \in Fits(len, taken) : a <= b}

\* what __wbindgen_malloc(len) may do (index.ts:14): return the offset of a
\* region that fits, replacing the memory's buffer by a grown one or not, or
\* abort
MallocOutcomes(h, len, taken) ==
    IF h.threw THEN {[trap |-> FALSE, ptr |-> 0, grow |-> FALSE]}
    ELSE
    {[trap |-> FALSE, ptr |-> q, grow |-> g] :
        q \in FirstFit(len, taken),
        g \in IF h.buf < 1 + MaxGrow THEN BOOLEAN ELSE {FALSE}}
    \cup (IF faults < MaxFaults
          THEN {[trap |-> TRUE, ptr |-> 0, grow |-> FALSE]} ELSE {})

\* index.ts:248, 296, 300: `exports.__wbindgen_malloc(len)` with outcome m
Malloc(h, len, m) ==
    IF h.threw THEN h
    ELSE IF m.trap
    THEN [h EXCEPT !.threw = TRUE,
                   !.trace = Append(@, Step("malloc-abort", NULL, len, NULL, h.buf))]
    ELSE LET b == IF m.grow THEN h.buf + 1 ELSE h.buf IN
         [h EXCEPT !.out = @ + 1, !.buf = b,
                   !.held = @ \cup {[ptr |-> m.ptr, len |-> len]},
                   !.trace = Append(@, Step("malloc", m.ptr, len, NULL, b))]

\* index.ts:261, 322, 323: `exports.__wbindgen_free(ptr, len)`
Free(h, ptr, len) ==
    IF h.threw THEN h
    ELSE [h EXCEPT !.out = @ - 1,
                   !.held = @ \ {[ptr |-> ptr, len |-> len]},
                   !.trace = Append(@, Step("free", ptr, len, NULL, h.buf))]

\* the bytes of memory at [ptr, ptr + len)
Region(mem, ptr, len) == [i \in 1..len |-> mem[ptr + i - 1]]

\* The engine accepts a shard region only when the counts are positive and
\* divide its length into non-empty shards.
ValidShape(len, d, p) ==
    /\ d >= 1
    /\ p >= 1
    /\ len >= 1
    /\ len % (d + p) = 0

\* the engine's own split of a region it accepts: the bytes of the data
\* shards end at EngineDataEnd, and byte i lies in shard ShardOf(i)
EngineDataEnd(len, d, p) == d * (len \div (d + p))
ShardOf(i, len, d, p) == ((i - 1) \div (len \div (d + p))) + 1

\* the shard region the caller first supplied, after a correct encode
Codeword(len, d, p) ==
    [i \in 1..len |-> IF i <= EngineDataEnd(len, d, p)
                      THEN CallerBytes(len)[i] ELSE ParityBytes(len)[i]]

\* The engine's encode on a region it accepts: the parity bytes are a function
\* of the data bytes alone; the data bytes of the engine's copy are left alone
\* or used as scratch space.
EncodeWrites(region, d, p, scratch) ==
    LET len == Len(region)
        end == EngineDataEnd(len, d, p)
        supplied == \A i \in 1..end : region[i] = CallerBytes(len)[i]
    IN  [i \in 1..len |->
            IF i > end
            THEN (IF supplied THEN ParityBytes(len)[i] ELSE DerivedBytes(len)[i])
            ELSE IF scratch THEN ScratchBytes(len)[i] ELSE region[i]]

\* The engine's reconstruct on a region it accepts with enough shards present:
\* every shard flagged present is left alone and every other shard is computed
\* from the present ones, which restores the codeword they are part of.
ReconstructWrites(region, d, p, flags) ==
    LET len == Len(region)
        present(i) == flags[ShardOf(i, len, d, p)] # 0
        intact == \A i \in 1..len : present(i) => region[i] = Codeword(len, d, p)[i]
    IN  [i \in 1..len |->
            IF present(i) THEN region[i]
            ELSE IF intact THEN Codeword(len, d, p)[i] ELSE DerivedBytes(len)[i]]

\* the shard region after an engine operation with outcome e
EngineWrites(op, region, a, flags, e) ==
    IF e.code # RESULT_OK
    THEN (IF e.scratch THEN ScratchBytes(Len(region)) ELSE region)
    ELSE IF op = "encode" THEN EncodeWrites(region, a.d, a.p, e.scratch)
    ELSE ReconstructWrites(region, a.d, a.p, flags)

\* an engine operation that returns: its number, whether it used the region
\* as scratch space, and whether it replaced the memory's buffer by a grown one
Returns(h, codes, scratches) ==
    {[trap |-> FALSE, code |-> c, scratch |-> s, grow |-> g] :
        c \in codes, s \in scratches,
        g \in IF h.buf < 1 + MaxGrow THEN BOOLEAN ELSE {FALSE}}

\* an engine operation that aborts
Aborts ==
    IF faults < MaxFaults
    THEN {[trap |-> TRUE, code |-> NoResult, scratch |-> FALSE, grow |-> FALSE]}
    ELSE {}

\* an engine operation that is not reached because an earlier step raised
Skipped == {[trap |-> FALSE, code |-> NoResult, scratch |-> FALSE, grow |-> FALSE]}

\* the flags the engine reads from the availability region named by a
FlagsRead(h, a) == Region(h.mem, a.availPtr, a.availLen)

\* the engine has one flag per shard
FlagPerShard(a, flags) == Len(flags) = a.d + a.p

\* the number of shards flagged present
Present(flags) == Cardinality({i \in DOMAIN flags : flags[i] # 0})

\* What the engine's encode may do (index.ts:12): on a shape it accepts it
\* returns OK; on any other it returns a non-OK number or aborts.
EncodeOutcomes(h, a) ==
    IF h.threw THEN Skipped
    ELSE IF ValidShape(a.len, a.d, a.p)
    THEN Returns(h, {RESULT_OK}, BOOLEAN)
    ELSE Aborts \cup Returns(h, ErrorCodes, BOOLEAN)

\* What the engine's reconstruct may do (index.ts:13): on a shape it accepts
\* with one flag per shard it returns OK when at least dataShards shards are
\* present and TOO_FEW_SHARDS_PRESENT otherwise; on anything else it returns a
\* non-OK number or aborts.
ReconstructOutcomes(h, a) ==
    IF h.threw THEN Skipped
    ELSE IF ValidShape(a.len, a.d, a.p) /\ FlagPerShard(a, FlagsRead(h, a))
    THEN (IF Present(FlagsRead(h, a)) >= a.d
          THEN Returns(h, {RESULT_OK}, {FALSE})
          ELSE Returns(h, {RESULT_ERROR_TOO_FEW_SHARDS_PRESENT}, BOOLEAN))
    ELSE Aborts \cup Returns(h, ErrorCodes, BOOLEAN)

\* index.ts:252 with the bug of rounding the length down to whole shards
EncodeArgs_Truncated(ptr, len, d, p) ==
    [ ptr |-> ptr, len |-> IF d + p > 0 THEN len - (len % (d + p)) ELSE len,
      d |-> d, p |-> p, availPtr |-> NULL, availLen |-> 0 ]

\* index.ts:252: the arguments encode hands to the engine
EncodeArgs(ptr, len, d, p) ==
    [ ptr |-> ptr, len |-> len, d |-> d, p |-> p, availPtr |-> NULL, availLen |-> 0 ]

\* index.ts:307-314 with the bug of passing the shard count as the length of
\* the availability region
ReconstructArgs_ShardCount(ptr, len, d, p, availPtr, availLen) ==
    [ ptr |-> ptr, len |-> len, d |-> d, p |-> p,
      availPtr |-> availPtr, availLen |-> d + p ]

\* index.ts:307-314: the arguments reconstruct hands to the engine
ReconstructArgs(ptr, len, d, p, availPtr, availLen) ==
    [ ptr |-> ptr, len |-> len, d |-> d, p |-> p,
      availPtr |-> availPtr, availLen |-> availLen ]

\* index.ts:252, 307-314: the engine operation op runs on the arguments a with
\* outcome e; `seen` keeps the memory as the engine found it, `code` the
\* number the engine returned, `result` the adapter's `const result`.
Invoke(h, op, a, e) ==
    IF h.threw THEN h
    ELSE IF e.trap
    THEN [h EXCEPT !.threw = TRUE, !.seen = h.mem, !.args = a,
                   !.trace = Append(@, Step(op, a.ptr, a.len, NULL, h.buf))]
    ELSE LET b == IF e.grow THEN h.buf + 1 ELSE h.buf
             w == EngineWrites(op, Region(h.mem, a.ptr, a.len), a, FlagsRead(h, a), e)
         IN
         [h EXCEPT
            !.seen = h.mem,
            !.mem = [x \in Addr |->
                        IF x >= a.ptr /\ x < a.ptr + a.len
                        THEN w[x - a.ptr + 1] ELSE h.mem[x]],
            !.buf = b,
            !.args = a,
            !.code = e.code,
            !.result = e.code,
            !.trace = Append(@, Step(op, a.ptr, a.len, NULL, b))]

\* index.ts:251, 306: ToIntegerOrInfinity(shardSize * dataShards) where
\* shardSize = shardsLength / (dataShards + parityShards). With no shards the
\* quotient is NaN or Infinity and the product NaN, which converts to 0.
DataEnd(len, d, p) ==
    IF d + p = 0 THEN 0 ELSE (len * d) \div (d + p)

\* ToIntegerOrInfinity(shardsPointer + shardSize * dataShards): NaN absorbs
\* the pointer
PtrPlusDataEnd(ptr, len, d, p) ==
    IF d + p = 0 THEN 0 ELSE ptr + DataEnd(len, d, p)

\* `view.subarray(begin, end)`: both ends are clamped to the view
Subarray(h, begin, end) ==
    LET b == Min(begin, ViewLength(h))
        e == Min(end, ViewLength(h))
    IN  [i \in 1..Max(e - b, 0) |-> h.mem[b + i - 1]]

\* `target.set(src, offset)` on the caller's buffer: the buffer after the
\* call, or a RangeError when src does not fit
TypedArraySet(target, src, offset) ==
    IF offset + Len(src) > Len(target)
    THEN [threw |-> TRUE, shards |-> target]
    ELSE [threw |-> FALSE,
          shards |-> [i \in 1..Len(target) |->
                        IF i > offset /\ i <= offset + Len(src)
                        THEN src[i - offset] ELSE target[i]]]

\* index.ts:254, 316 with the bug of copying out whatever the engine returned
ResultIsOk_Always(h) == TRUE

\* index.ts:254, 316 `if (result === ReedSolomonErasure.RESULT_OK)`
ResultIsOk(h) == h.result = RESULT_OK

\* the copy-out of a call: the handle after it and the caller's buffer
CopyOut(h, begin, end, offset) ==
    IF h.threw \/ ~ResultIsOk(h)
    THEN [h |-> h, shards |-> shards]
    ELSE LET g == GetUint8Memory(h)
             w == TypedArraySet(shards, Subarray(g, begin, end), offset)
         IN  [h |-> [g EXCEPT !.threw = w.threw,
                              !.trace = Append(@, Step("subarray", begin, end - begin,
                                                       g.cache, g.buf))],
              shards |-> w.shards]

\* index.ts:254-259 with the bug of copying the whole shard region back
EncodeCopyOut_WholeRegion(h, ptr) ==
    CopyOut(h, ptr, ptr + Len(shards), 0)

\* index.ts:254-259 with the bug of reading the parity at an offset that
\* leaves out shardsPointer
EncodeCopyOut_NoPointer(h, ptr) ==
    CopyOut(h, DataEnd(Len(shards), dataShards, parityShards), Len(shards),
            DataEnd(Len(shards), dataShards, parityShards))

\* index.ts:254-259: on OK, encode copies the parity region back
EncodeCopyOut(h, ptr) ==
    CopyOut(h, PtrPlusDataEnd(ptr, Len(shards), dataShards, parityShards),
            ptr + Len(shards),
            DataEnd(Len(shards), dataShards, parityShards))

\* index.ts:316-320 with the bug of copying the whole shard region back
ReconstructCopyOut_WholeRegion(h, ptr) ==
    CopyOut(h, ptr, ptr + Len(shards), 0)

\* index.ts:316-320: on OK, reconstruct copies the data region back
ReconstructCopyOut(h, ptr) ==
    CopyOut(h, ptr, PtrPlusDataEnd(ptr, Len(shards), dataShards, parityShards), 0)

\* index.ts:302 with the bug of writing the flags inverted
AvailBytes_Inverted(flags) ==
    [i \in 1..Len(flags) |-> IF flags[i] THEN 0 ELSE 1]

\* index.ts:302 with the bug of flagging every shard as present
AvailBytes_AllPresent(flags) ==
    [i \in 1..Len(flags) |-> 1]

\* index.ts:302 `shardsAvailable.map((value) => value ? 1 : 0)`
AvailBytes(flags) ==
    [i \in 1..Len(flags) |-> IF flags[i] THEN 1 ELSE 0]

\* index.ts:263, 325 with the bug of turning an abort into a result code
Outcome_MaskFault(h) ==
    IF h.threw THEN [threw |-> FALSE, result |-> RESULT_ERROR_TOO_FEW_SHARDS_PRESENT]
    ELSE [threw |-> FALSE, result |-> h.result]

\* index.ts:263, 325 with the bug of replacing a number outside the table
Outcome_Normalised(h) ==
    IF h.threw THEN [threw |-> TRUE, result |-> NoResult]
    ELSE [threw |-> FALSE,
          result |-> IF h.result \in 0..13 THEN h.result
                     ELSE RESULT_ERROR_TOO_FEW_SHARDS_PRESENT]

\* index.ts:263, 325 `return result`, reached only when nothing raised: an
\* error raised by a boundary step leaves the call as it is (no try / catch)
Outcome(h) ==
    IF h.threw THEN [threw |-> TRUE, result |-> NoResult]
    ELSE [threw |-> FALSE, result |-> h.result]

\* what an encode that returned OK was given and what it left: the data
\* region, the parity region after the call, and where the engine's copy lay
EncodeRecord(h, after) ==
    LET len == Len(shards)
        end == DataEnd(len, dataShards, parityShards)
    IN  [ data |-> SubSeq(shards, 1, end),
          parity |-> SubSeq(after, end + 1, len),
          ptr |-> h.args.ptr ]

\* what a finished marshaling call leaves: the handle's fields, the caller's
\* buffer and the record of the call
Leave(op, h, after) ==
    /\ memBuf' = h.buf
    /\ memoryCache' = h.cache
    /\ outstanding' = h.out
    /\ held' = h.held
    /\ faults' = IF h.threw THEN faults + 1 ELSE faults
    /\ shards' = after
    /\ last' = [ op |-> op, before |-> shards,
                 threw |-> Outcome(h).threw, result |-> Outcome(h).result,
                 trace |-> h.trace, seen |-> h.seen, mem |-> h.mem,
                 after |-> after, code |-> h.code, args |-> h.args ]
    /\ encoded' = IF op = "encode" /\ ~h.threw /\ h.result = RESULT_OK
                  THEN encoded \cup {EncodeRecord(h, after)} ELSE encoded
    /\ UNCHANGED <<dataShards, parityShards, shardsAvailable, message>>
    /\ UNCHANGED lifecycleVars
    /\ UNCHANGED responseVars

\* index.ts:261 with the bug of releasing only after a successful encode
EncodeFree_OnlyOnOk(h, ptr, len) ==
    IF h.result = RESULT_OK THEN Free(h, ptr, len) ELSE h

\* index.ts:261: encode releases the shard region
EncodeFree(h, ptr, len) == Free(h, ptr, len)

\* index.ts:244-264 with the bug of releasing the region before the copy-out
Encode_ReleaseFirst ==
    \E shardsLength \in {Len(shards)} :
    \E m \in MallocOutcomes(Enter, shardsLength, held) :
    \E h1 \in {Malloc(Enter, shardsLength, m)} :
    \E h2 \in {MemSet(h1, shards, m.ptr)} :
    \E a \in {EncodeArgs(m.ptr, shardsLength, dataShards, parityShards)} :
    \E e \in EncodeOutcomes(h2, a) :
    \E h3 \in {Invoke(h2, "encode", a, e)} :
    \E h4 \in {EncodeFree(h3, m.ptr, shardsLength)} :
    \E c \in {EncodeCopyOut(h4, m.ptr)} :
        Leave("encode", c.h, c.shards) /\ UNCHANGED threadVars

\* index.ts:244-264: encode(shards, dataShards, parityShards)
Encode ==
    \E shardsLength \in {Len(shards)} :
    \E m \in MallocOutcomes(Enter, shardsLength, held) :
    \E h1 \in {Malloc(Enter, shardsLength, m)} :
    \E h2 \in {MemSet(h1, shards, m.ptr)} :
    \E a \in {EncodeArgs(m.ptr, shardsLength, dataShards, parityShards)} :
    \E e \in EncodeOutcomes(h2, a) :
    \E h3 \in {Invoke(h2, "encode", a, e)} :
    \E c \in {EncodeCopyOut(h3, m.ptr)} :
    \E h4 \in {EncodeFree(c.h, m.ptr, shardsLength)} :
        Leave("encode", h4, c.shards) /\ UNCHANGED threadVars

\* index.ts:322-323: reconstruct releases the shard region, then the
\* availability region
ReconstructFree(h, shardsPointer, shardsLength, availPointer, availLength) ==
    Free(Free(h, shardsPointer, shardsLength), availPointer, availLength)

\* index.ts:292-326: reconstruct(shards, dataShards, parityShards, shardsAvailable)
Reconstruct ==
    \E shardsLength \in {Len(shards)}, shardsAvailableLength \in {Len(shardsAvailable)} :
    \E m1 \in MallocOutcomes(Enter, shardsLength, held) :
    \E h1 \in {Malloc(Enter, shardsLength, m1)} :
    \E h2 \in {MemSet(h1, shards, m1.ptr)} :
    \E m2 \in MallocOutcomes(h2, shardsAvailableLength, h2.held) :
    \E h3 \in {Malloc(h2, shardsAvailableLength, m2)} :
    \E h4 \in {MemSet(h3, AvailBytes(shardsAvailable), m2.ptr)} :
    \E a \in {ReconstructArgs(m1.ptr, shardsLength, dataShards, parityShards,
                              m2.ptr, shardsAvailableLength)} :
    \E e \in ReconstructOutcomes(h4, a) :
    \E h5 \in {Invoke(h4, "reconstruct", a, e)} :
    \E c \in {ReconstructCopyOut(h5, m1.ptr)} :
    \E h6 \in {ReconstructFree(c.h, m1.ptr, shardsLength, m2.ptr, shardsAvailableLength)} :
        Leave("reconstruct", h6, c.shards) /\ UNCHANGED threadVars

\* part_001:70-76: the caller zeroes every shard it flags as unavailable
CorruptShards ==
    /\ ValidShape(Len(shards), dataShards, parityShards)
    /\ Len(shardsAvailable) = dataShards + parityShards
    /\ shards' = [i \in 1..Len(shards) |->
                    IF shardsAvailable[ShardOf(i, Len(shards), dataShards, parityShards)]
                    THEN shards[i] ELSE 0]
    /\ shards' # shards
    /\ UNCHANGED <<memBuf, memoryCache, outstanding, held, faults,
                   dataShards, parityShards, shardsAvailable, last, encoded, message>>
    /\ UNCHANGED lifecycleVars
    /\ UNCHANGED responseVars
    /\ UNCHANGED threadVars

\* ------------------------------------------------- marshaling step by step

MaxMarshalCalls == 1 \* marshaling calls begun while the lifecycle runs

\* index.ts:244-326 with the bug of an `await` before the engine is invoked
SuspensionPoints_BeforeInvoke(op) == {"invoke"}

\* index.ts:244-326: the steps of encode and reconstruct before which the
\* call awaits; neither method is async and neither has an await
SuspensionPoints(op) == {}

\* index.ts:244-264, 292-326: the boundary steps of a call in statement order
StepsOf(op) ==
    IF op = "encode"
    THEN <<"acquire", "copyIn", "invoke", "copyOut", "release">>
    ELSE <<"acquire", "copyIn", "acquireAvailable", "copyInAvailable",
           "invoke", "copyOut", "release">>

\* the pointer the n-th step of the call was handed or returned
PointerAt(h, n) == IF Len(h.trace) >= n THEN h.trace[n].ptr ELSE NULL

\* what the next step of call r may leave: r.at is the step, r.h the handle's
\* state inside the call, r.after the caller's shard buffer
StepOutcomes(r) ==
    LET step == StepsOf(r.op)[r.at]
        shardsPointer == PointerAt(r.h, 1)
        availPointer == PointerAt(r.h, 3)
        done(h) == [r EXCEPT !.h = h, !.at = @ + 1]
    IN  CASE step = "acquire" ->
                {done(Malloc(r.h, Len(shards), m)) :
                    m \in MallocOutcomes(r.h, Len(shards), r.h.held)}
          [] step = "copyIn" ->
                {done(MemSet(r.h, shards, shardsPointer))}
          [] step = "acquireAvailable" ->
                {done(Malloc(r.h, Len(shardsAvailable), m)) :
                    m \in MallocOutcomes(r.h, Len(shardsAvailable), r.h.held)}
          [] step = "copyInAvailable" ->
                {done(MemSet(r.h, AvailBytes(shardsAvailable), availPointer))}
          [] step = "invoke" /\ r.op = "encode" ->
                LET a == EncodeArgs(shardsPointer, Len(shards), dataShards, parityShards)
                IN  {done(Invoke(r.h, "encode", a, e)) : e \in EncodeOutcomes(r.h, a)}
          [] step = "invoke" /\ r.op = "reconstruct" ->
                LET a == ReconstructArgs(shardsPointer, Len(shards), dataShards,
                                         parityShards, availPointer, Len(shardsAvailable))
                IN  {done(Invoke(r.h, "reconstruct", a, e)) :
                        e \in ReconstructOutcomes(r.h, a)}
          [] step = "copyOut" ->
                LET c == IF r.op = "encode" THEN EncodeCopyOut(r.h, shardsPointer)
                         ELSE ReconstructCopyOut(r.h, shardsPointer)
                IN  {[r EXCEPT !.h = c.h, !.after = c.shards, !.at = @ + 1]}
          [] step = "release" ->
                {done(IF r.op = "encode"
                      THEN EncodeFree(r.h, shardsPointer, Len(shards))
                      ELSE ReconstructFree(r.h, shardsPointer, Len(shards),
                                           availPointer, Len(shardsAvailable)))}

\* call r has run its last step
Finished(r) == r.at > Len(StepsOf(r.op))

\* Where call r can be when the thread next leaves it: a synchronous function
\* runs on, step after step, until it returns or reaches an await.
RECURSIVE RunOn(_)
RunOn(r) ==
    IF Finished(r) \/ StepsOf(r.op)[r.at] \in SuspensionPoints(r.op)
    THEN {r}
    ELSE UNION {RunOn(n) : n \in StepOutcomes(r)}

\* the calls a caller may begin now
Startable ==
    IF marshaled < MaxMarshalCalls
    THEN {[op |-> o, at |-> 1, h |-> Enter, after |-> shards] :
            o \in {"encode", "reconstruct"}}
    ELSE {}

\* index.ts:244-264, 292-326: the thread enters encode or reconstruct, or
\* re-enters a suspended call, and runs it until it returns or awaits
MarshalCall ==
    \E r \in Startable \cup inProgress :
    \E n \in UNION {RunOn(s) : s \in StepOutcomes(r)} :
        /\ marshaled' = IF r \in inProgress THEN marshaled ELSE marshaled + 1
        /\ IF Finished(n)
           THEN /\ Leave(n.op, n.h, n.after)
                /\ inProgress' = inProgress \ {r}
           ELSE /\ inProgress' = (inProgress \ {r}) \cup {n}
                /\ UNCHANGED <<lifecycleVars, marshalVars, responseVars>>

\* ------------------------------------------------------ loading a response

BodyLen == 3         \* chunks in the body of the response

\* no failure while the body is read
Never == 0

\* the two bodies a fromResponse call can read
Bodies == {"original", "clone"}

\* a body nobody has made yet, and one that is made and not read
NoBody == [made |-> FALSE, reads |-> 0, pos |-> 0, state |-> "none"]
UnreadBody == [made |-> TRUE, reads |-> 0, pos |-> 0, state |-> "unread"]

\* `source` before it is passed to fromResponse
NoResponse == [state |-> "none", mime |-> FALSE, valid |-> FALSE, failsAt |-> Never]

\* fromResponse before it is called
NotCalled == [pc |-> "idle", attempts |-> <<>>, via |-> "none"]

\* the Responses `source` may settle to: served as application/wasm or not,
\* holding a module that compiles and instantiates or not, with a transfer
\* that delivers every chunk or breaks at chunk failsAt
Responses ==
    [state : {"resolved"}, mime : BOOLEAN, valid : BOOLEAN, failsAt : 0..BodyLen]

\* Body.bodyUsed: a consumer was attached to the body
BodyUsed(b) == bodies[b].reads > 0

\* a consumer (instantiateStreaming or arrayBuffer) is attached to body b; a
\* body that is used already, or was never made, gives the consumer a TypeError
Attach(bs, b) ==
    [bs EXCEPT ![b].reads = @ + 1,
               ![b].state = IF bs[b].made /\ bs[b].reads = 0
                            THEN "reading" ELSE "refused"]

\* Response.clone(): a second body over the same bytes; raises a TypeError,
\* making nothing, when the body is used
Clone(bs) ==
    IF bs["original"].reads = 0 THEN [bs EXCEPT !["clone"] = UnreadBody] ELSE bs

\* index.ts:154-156 with the bug of streaming from the response itself
StreamingInput_Original == "original"

\* index.ts:154-156: the body instantiateStreaming is given, `response.clone()`
StreamingInput == "clone"

\* index.ts:158-160 with the bug of letting the streaming failure escape
CatchesStreamingFailure_Never == FALSE

\* index.ts:158-160: the catch clause has no binding and no condition
CatchesStreamingFailure == TRUE

\* index.ts:164: `response.arrayBuffer()` on the response fromResponse was given
StartArrayBuffer(bs) == Attach(bs, "original")

\* index.ts:148-149: fromResponse(source) up to `await source`
FromResponse ==
    /\ fromResponse.pc = "idle"
    /\ response' = [NoResponse EXCEPT !.state = "pending"]
    /\ fromResponse' = [fromResponse EXCEPT !.pc = "awaitSource"]
    /\ UNCHANGED <<hasInstantiateStreaming, bodies>>
    /\ UNCHANGED lifecycleVars
    /\ UNCHANGED marshalVars
    /\ UNCHANGED threadVars

\* index.ts:149: `source` rejects and so does fromResponse
SourceRejects ==
    /\ fromResponse.pc = "awaitSource"
    /\ response' = [response EXCEPT !.state = "rejected"]
    /\ fromResponse' = [fromResponse EXCEPT !.pc = "threw"]
    /\ UNCHANGED <<hasInstantiateStreaming, bodies>>
    /\ UNCHANGED lifecycleVars
    /\ UNCHANGED marshalVars
    /\ UNCHANGED threadVars

\* index.ts:149-156, 164: `source` resolves to r; with instantiateStreaming the
\* response is cloned and the clone is handed to it, without it arrayBuffer()
\* is called on the response
SourceResolves(r) ==
    /\ fromResponse.pc = "awaitSource"
    /\ response' = r
    /\ LET fresh == [bodies EXCEPT !["original"] = UnreadBody] IN
       IF hasInstantiateStreaming
       THEN /\ bodies' = Attach(IF StreamingInput = "clone" THEN Clone(fresh) ELSE fresh,
                                StreamingInput)
            /\ fromResponse' = [fromResponse EXCEPT !.pc = "streaming",
                                                    !.attempts = Append(@, "streaming")]
       ELSE /\ bodies' = StartArrayBuffer(fresh)
            /\ fromResponse' = [fromResponse EXCEPT !.pc = "buffering",
                                                    !.attempts = Append(@, "buffered")]
    /\ UNCHANGED hasInstantiateStreaming
    /\ UNCHANGED lifecycleVars
    /\ UNCHANGED marshalVars
    /\ UNCHANGED threadVars

\* the consumer of body b can take one more chunk
CanRead(b) ==
    /\ bodies[b].state = "reading"
    /\ bodies[b].pos < BodyLen
    /\ response.failsAt # bodies[b].pos + 1

\* the transfer breaks at the chunk the consumer of body b asks for
ReadBreaks(b) ==
    /\ bodies[b].state = "reading"
    /\ response.failsAt = bodies[b].pos + 1

\* instantiateStreaming reads one more chunk of its input
StreamingReads ==
    /\ fromResponse.pc = "streaming"
    /\ response.mime
    /\ CanRead(StreamingInput)
    /\ bodies' = [bodies EXCEPT ![StreamingInput].pos = @ + 1]
    /\ UNCHANGED <<hasInstantiateStreaming, response, fromResponse>>
    /\ UNCHANGED lifecycleVars
    /\ UNCHANGED marshalVars
    /\ UNCHANGED threadVars

\* index.ts:154-157: instantiateStreaming resolves once the whole body is read
\* and compiled, and fromResponse returns a handle over the instance
StreamingResolves ==
    /\ fromResponse.pc = "streaming"
    /\ response.mime /\ response.valid
    /\ bodies[StreamingInput].state = "reading"
    /\ bodies[StreamingInput].pos = BodyLen
    /\ bodies' = [bodies EXCEPT ![StreamingInput].state = "read"]
    /\ fromResponse' = [fromResponse EXCEPT !.pc = "returned", !.via = "streaming"]
    /\ UNCHANGED <<hasInstantiateStreaming, response>>
    /\ UNCHANGED lifecycleVars
    /\ UNCHANGED marshalVars
    /\ UNCHANGED threadVars

\* instantiateStreaming rejects: at once when its input is refused or is not
\* served as application/wasm, when the transfer breaks, or, for bytes that
\* are no module, after at least one chunk
StreamingFails ==
    \/ bodies[StreamingInput].state = "refused"
    \/ ~response.mime
    \/ ReadBreaks(StreamingInput)
    \/ ~response.valid /\ bodies[StreamingInput].pos >= 1

\* index.ts:158-164: the rejection of instantiateStreaming is caught and
\* arrayBuffer() is called on the response
StreamingRejects ==
    /\ fromResponse.pc = "streaming"
    /\ StreamingFails
    /\ LET left == [bodies EXCEPT ![StreamingInput].state =
                        IF @ = "refused" THEN @
                        ELSE IF ReadBreaks(StreamingInput) THEN "errored"
                        ELSE "cancelled"] IN
       IF CatchesStreamingFailure
       THEN /\ bodies' = StartArrayBuffer(left)
            /\ fromResponse' = [fromResponse EXCEPT !.pc = "buffering",
                                                    !.attempts = Append(@, "buffered")]
       ELSE /\ bodies' = left
            /\ fromResponse' = [fromResponse EXCEPT !.pc = "threw"]
    /\ UNCHANGED <<hasInstantiateStreaming, response>>
    /\ UNCHANGED lifecycleVars
    /\ UNCHANGED marshalVars
    /\ UNCHANGED threadVars

\* arrayBuffer() reads one more chunk of the response
ArrayBufferReads ==
    /\ fromResponse.pc = "buffering"
    /\ CanRead("original")
    /\ bodies' = [bodies EXCEPT !["original"].pos = @ + 1]
    /\ UNCHANGED <<hasInstantiateStreaming, response, fromResponse>>
    /\ UNCHANGED lifecycleVars
    /\ UNCHANGED marshalVars
    /\ UNCHANGED threadVars

\* index.ts:187-190: fromBytes builds a handle from bytes that are a module
\* and raises on any others
FromBytes(valid) == IF valid THEN "returned" ELSE "threw"

\* index.ts:164-165: arrayBuffer() resolves with the whole body and
\* fromResponse ends as fromBytes does
ArrayBufferResolves ==
    /\ fromResponse.pc = "buffering"
    /\ bodies["original"].state = "reading"
    /\ bodies["original"].pos = BodyLen
    /\ bodies' = [bodies EXCEPT !["original"].state = "read"]
    /\ fromResponse' = [fromResponse EXCEPT
                            !.pc = FromBytes(response.valid),
                            !.via = IF response.valid THEN "bytes" ELSE "none"]
    /\ UNCHANGED <<hasInstantiateStreaming, response>>
    /\ UNCHANGED lifecycleVars
    /\ UNCHANGED marshalVars
    /\ UNCHANGED threadVars

\* index.ts:164: arrayBuffer() rejects, because the body was used or because
\* the transfer breaks, and so does fromResponse
ArrayBufferRejects ==
    /\ fromResponse.pc = "buffering"
    /\ bodies["original"].state = "refused" \/ ReadBreaks("original")
    /\ bodies' = [bodies EXCEPT !["original"].state =
                        IF @ = "refused" THEN @ ELSE "errored"]
    /\ fromResponse' = [fromResponse EXCEPT !.pc = "threw"]
    /\ UNCHANGED <<hasInstantiateStreaming, response>>
    /\ UNCHANGED lifecycleVars
    /\ UNCHANGED marshalVars
    /\ UNCHANGED threadVars

\* ------------------------------------------------------------ result messages

MaxCode == 60        \* getResultMessage is called with codes in -MaxCode..MaxCode

\* the codes getResultMessage is called with: a range around the table, and
\* the unknown code of part_001:114
Codes == ((0 - MaxCode)..MaxCode) \cup {UnknownCode}

\* index.ts:335-350: the `messages` object literal
Messages ==
    0 :> "OK" @@
    1 :> "Too few shards" @@
    2 :> "Too many shards" @@
    3 :> "Too few data shards" @@
    4 :> "Too many data shards" @@
    5 :> "Too few parity shards" @@
    6 :> "Too many parity shards" @@
    7 :> "Too few buffer shards" @@
    8 :> "Too many buffer shards" @@
    9 :> "Incorrect shard size" @@
    10 :> "Too few shards present for reconstruction" @@
    11 :> "Empty shard" @@
    12 :> "Invalid shard flags" @@
    13 :> "Invalid index"

\* `undefined`, which a lookup of a missing key yields, written as the empty
\* string: both are falsy
Undefined == ""

\* `messages[code]`
Lookup(code) == IF code \in DOMAIN Messages THEN Messages[code] ELSE Undefined

DigitChar == <<"0", "1", "2", "3", "4", "5", "6", "7", "8", "9">>

\* `${code}` for an integer: its decimal digits after a minus sign if negative
RECURSIVE NumberToString(_)
NumberToString(n) ==
    IF n < 0 THEN "-" \o NumberToString(0 - n)
    ELSE IF n < 10 THEN DigitChar[n + 1]
    ELSE NumberToString(n \div 10) \o DigitChar[(n % 10) + 1]

\* index.ts:351 with the bug of testing the code, not the looked-up text
MessageText_FalsyCode(code) ==
    IF code # 0 /\ Lookup(code) # Undefined THEN Lookup(code)
    ELSE "Unknown error code: " \o NumberToString(code)

\* index.ts:351 `return messages[code] || `Unknown error code: ${code}``
MessageText(code) ==
    IF Lookup(code) # Undefined THEN Lookup(code)
    ELSE "Unknown error code: " \o NumberToString(code)

\* no getResultMessage call yet
NoMessage == [called |-> FALSE, code |-> 0, text |-> ""]

\* index.ts:334-352: getResultMessage(code)
GetResultMessage(code) ==
    /\ message' = [called |-> TRUE, code |-> code, text |-> MessageText(code)]
    /\ UNCHANGED <<memBuf, memoryCache, outstanding, held, faults,
                   shards, dataShards, parityShards, shardsAvailable, last, encoded>>
    /\ UNCHANGED lifecycleVars
    /\ UNCHANGED responseVars
    /\ UNCHANGED threadVars

\* the two module-level slots as the module is loaded (index.ts:24-28)
LifecycleInit ==
    /\ cachedInstance = NULL
    /\ loadingPromise = NULL
    /\ loads = <<>>
    /\ calls = <<>>
    /\ clears = 0
    /\ sinceClear = FALSE
    /\ firstCached = NULL

\* a handle as its constructor leaves it (index.ts:67-69)
HandleInit ==
    /\ memBuf = 1
    /\ memoryCache = NULL
    /\ outstanding = 0
    /\ held = {}
    /\ faults = 0
    /\ encoded = {}
    /\ last = [ op |-> "none", before |-> <<>>, threw |-> FALSE, result |-> NoResult,
                trace |-> <<>>, seen |-> FreshMemory, mem |-> FreshMemory,
                after |-> <<>>, code |-> NoResult, args |-> <<>> ]

\* no fromResponse call has been made
ResponseIdle ==
    /\ inProgress = {}
    /\ marshaled = 0
    /\ response = NoResponse
    /\ bodies = [b \in Bodies |-> NoBody]
    /\ fromResponse = NotCalled

\* the lifecycle is explored with a caller that marshals nothing
Init ==
    /\ isBrowser \in BOOLEAN
    /\ hasInstantiateStreaming = TRUE
    /\ ResponseIdle
    /\ LifecycleInit
    /\ HandleInit
    /\ shards = <<>>
    /\ dataShards = 0
    /\ parityShards = 0
    /\ shardsAvailable = <<>>
    /\ message = NoMessage

\* The marshaler is explored on one handle, built under Node as the test
\* suite's is (part_001:7-9), and a caller with any buffer length, any shard
\* counts and any availability vector within the bounds.
MarshalInit ==
    /\ isBrowser = FALSE
    /\ hasInstantiateStreaming = FALSE
    /\ ResponseIdle
    /\ LifecycleInit
    /\ HandleInit
    /\ shards \in {CallerBytes(n) : n \in 0..MaxShardsLen}
    /\ dataShards \in ShardCounts
    /\ parityShards \in ShardCounts
    /\ shardsAvailable \in AvailVectors
    /\ message = NoMessage

Next ==
    \/ \E u \in WasmUrls : GetInstance(u)
    \/ ClearInstance
    \/ \E k \in 1..MaxLoads, ok \in BOOLEAN : Settle(k, ok)
    \/ \E c \in 1..MaxCalls : Resume(c)
    \/ \E c \in 1..MaxCalls : Deliver(c)

Spec == Init /\ [][Next]_vars

MarshalNext ==
    \/ Encode
    \/ Reconstruct
    \/ CorruptShards

MarshalSpec == MarshalInit /\ [][MarshalNext]_vars

\* fromResponse is explored in a browser, with and without
\* instantiateStreaming, on one call
ResponseInit ==
    /\ isBrowser = TRUE
    /\ hasInstantiateStreaming \in BOOLEAN
    /\ ResponseIdle
    /\ LifecycleInit
    /\ HandleInit
    /\ shards = <<>>
    /\ dataShards = 0
    /\ parityShards = 0
    /\ shardsAvailable = <<>>
    /\ message = NoMessage

ResponseNext ==
    \/ FromResponse
    \/ SourceRejects
    \/ \E r \in Responses : SourceResolves(r)
    \/ StreamingReads
    \/ StreamingResolves
    \/ StreamingRejects
    \/ ArrayBufferReads
    \/ ArrayBufferResolves
    \/ ArrayBufferRejects

ResponseSpec == ResponseInit /\ [][ResponseNext]_vars

\* The lifecycle is explored together with a caller that makes marshaling
\* calls on a handle it holds, with a buffer of two one-byte shards.
CallInit ==
    /\ isBrowser = FALSE
    /\ hasInstantiateStreaming = FALSE
    /\ ResponseIdle
    /\ LifecycleInit
    /\ HandleInit
    /\ shards = CallerBytes(2)
    /\ dataShards = 1
    /\ parityShards = 1
    /\ shardsAvailable = <<TRUE, TRUE>>
    /\ message = NoMessage

CallNext ==
    \/ Next
    \/ MarshalCall

CallSpec == CallInit /\ [][CallNext]_vars

\* getResultMessage is static and reads no state: it is explored on its own
MessageNext ==
    \E code \in Codes : GetResultMessage(code)

MessageSpec == Init /\ [][MessageNext]_vars

\* The microtask queue runs every queued continuation: a settled promise's
\* reactions are never postponed forever.
FairSpec ==
    /\ Spec
    /\ \A c \in 1..MaxCalls : WF_vars(Resume(c)) /\ WF_vars(Deliver(c))

\* ------------------------------------------------- claims on the lifecycle

\* the getInstance calls of epoch e (after e clears) that were issued while no
\* handle was cached and the instantiation, if one had started, was pending
InFlightGroup(e) ==
    {c \in DOMAIN calls : calls[c].hist.epoch = e /\ calls[c].hist.inFlight}

\* C1: the getInstance calls issued, with no clearInstance in between, while
\* the slot holds no handle and the instantiation has not settled start exactly
\* one instantiation, all wait on it, and every one that resolves resolves to
\* the handle that instantiation built.
C1_OneInstantiationPerBurst ==
    \A e \in 0..clears :
        LET G == InFlightGroup(e) IN
        G # {} =>
            /\ Cardinality({c \in G : calls[c].kind = "start"}) = 1
            /\ Cardinality({k \in DOMAIN loads : loads[k].epoch = e}) = 1
            /\ \A c1, c2 \in G : calls[c1].prom = calls[c2].prom
            /\ \A c \in G : calls[c].pc = "returned" => calls[c].result = calls[c].prom

\* three concurrent calls, one starter and two joiners, all resolved alike
C1_Witness ==
    /\ Cardinality(InFlightGroup(0)) >= 3
    /\ \A c \in InFlightGroup(0) : calls[c].pc = "returned" /\ calls[c].result = 1
    /\ \E c \in InFlightGroup(0) : calls[c].kind = "join"

\* C2: in every reachable state at most one instantiation started by
\* getInstance is pending.
C2_AtMostOneInFlight ==
    Cardinality({k \in DOMAIN loads : loads[k].state = "pending"}) <= 1

\* C3: once an instantiation has settled and its starter has resumed, the
\* in-flight marker no longer names it, and no later getInstance call is
\* handed the promise of an instantiation whose starter has already finished.
C3_MarkerClearedOnceSettled ==
    /\ \A k \in DOMAIN loads : StarterDone(k) => loadingPromise # k
    /\ \A c \in DOMAIN calls : ~calls[c].hist.late

\* C4: a getInstance call whose preceding API call was clearInstance starts an
\* instantiation of its own and resolves to the handle that instantiation built.
C4_FreshAfterClear ==
    \A c \in DOMAIN calls :
        calls[c].hist.afterClear =>
            /\ calls[c].kind = "start"
            /\ calls[c].pc = "returned" => calls[c].result = calls[c].prom

\* C5: from clearInstance until the next getInstance call the slot holds no
\* handle and no in-flight marker.
C5_SlotStaysEmptyAfterClear ==
    sinceClear => cachedInstance = NULL /\ loadingPromise = NULL

\* C6: a getInstance call made after a handle was cached, and before the next
\* clearInstance, returns that same handle and starts no instantiation.
C6_CachedHandleReturned ==
    \A c \in DOMAIN calls :
        calls[c].hist.seenFirst # NULL =>
            /\ calls[c].kind = "hit"
            /\ calls[c].result = calls[c].hist.seenFirst

\* C7: every call attached to an instantiation that failed ends by raising
\* that instantiation's error, never by returning a handle, and does end.
C7_FailureShared ==
    /\ [](\A c \in DOMAIN calls :
            (/\ calls[c].prom # NULL
             /\ LoadOf(c).state = "rejected"
             /\ calls[c].pc \in {"returned", "threw"})
            => calls[c].pc = "threw" /\ calls[c].result = calls[c].prom)
    /\ \A c \in 1..MaxCalls :
            (c \in DOMAIN calls /\ calls[c].prom # NULL /\ LoadOf(c).state = "rejected")
            ~> (c \in DOMAIN calls /\ calls[c].pc = "threw")

\* a failed instantiation whose starter and a joiner both raised its error
C7_Witness ==
    \E c1, c2 \in DOMAIN calls :
        /\ calls[c1].kind = "start" /\ calls[c2].kind = "join"
        /\ calls[c1].prom = calls[c2].prom
        /\ LoadOf(c1).state = "rejected"
        /\ calls[c2].hist.inFlight
        /\ calls[c1].pc = "threw" /\ calls[c2].pc = "threw"
        /\ calls[c1].result = calls[c2].result

\* C26: the slot never holds a cached handle and an in-flight marker at the
\* same time: it is empty, loading (marker only) or ready (handle only).
C26_SlotStates ==
    ~(cachedInstance # NULL /\ loadingPromise # NULL)

\* the slot is ready, having been loading, while another instantiation is
\* still pending: the continuation that cached the handle cleared the marker
C26_Witness ==
    /\ cachedInstance # NULL /\ loadingPromise = NULL
    /\ \E k \in DOMAIN loads : loads[k].state = "pending"
    /\ \E c \in DOMAIN calls : calls[c].kind = "start" /\ calls[c].pc = "returned"

\* C27: once a handle is cached it is replaced only after a further
\* clearInstance: the cached handle is the first one cached since the most
\* recent clearInstance (or since the start).
C27_OneHandlePerEpoch ==
    cachedInstance # NULL => cachedInstance = firstCached

\* C28: a getInstance call issued while a handle is cached or an instantiation
\* is pending starts no instantiation of its own, whatever its source
\* argument, and if it resolves it resolves to the cached handle or else to
\* the handle of an instantiation that was pending.
C28_SourceUsedByStarterOnly ==
    \A c \in DOMAIN calls :
        (calls[c].hist.cached # NULL \/ calls[c].hist.pending # {}) =>
            /\ calls[c].kind # "start"
            /\ calls[c].pc = "returned" =>
                    IF calls[c].hist.cached # NULL
                    THEN calls[c].result = calls[c].hist.cached
                    ELSE calls[c].result \in calls[c].hist.pending

\* ------------------------------------------------- claims on the marshaler

IsAcquire(s) == s.op = "malloc"
IsRelease(s) == s.op = "free"

\* the regions the last call acquired and the regions it released, in order
Acquired == SelectSeq(last.trace, IsAcquire)
Released == SelectSeq(last.trace, IsRelease)

\* the last call reached the engine and the engine returned a number
EngineReturned == last.op # "none" /\ last.result # NoResult

\* the last call reached the engine and the engine aborted: the engine step
\* is the last boundary step the call took
EngineAborted ==
    /\ last.op # "none"
    /\ Len(last.trace) > 0
    /\ last.trace[Len(last.trace)].op = last.op

\* every region the last call acquired was released once, in the order of
\* acquisition, with the pointer and length it was acquired with
ReleasedAsAcquired ==
    /\ Len(Released) = Len(Acquired)
    /\ \A i \in 1..Len(Acquired) :
            /\ Released[i].ptr = Acquired[i].ptr
            /\ Released[i].len = Acquired[i].len

\* C8: a call in which the engine returned a number (OK or not) acquired one
\* region (encode) or two (reconstruct), released each exactly once with the
\* pointer and length of its acquisition, and returned after the last release;
\* while every call so far has returned, no region is outstanding.
C8_RegionsReleasedOnce ==
    /\ EngineReturned =>
            /\ Len(Acquired) = (IF last.op = "encode" THEN 1 ELSE 2)
            /\ ReleasedAsAcquired
            /\ last.trace[Len(last.trace)].op = "free"
            /\ ~last.threw
    /\ faults = 0 => outstanding = 0

\* a reconstruct call the engine answered with a non-OK number, after which
\* both non-empty regions are released
C8_Witness ==
    /\ last.op = "reconstruct"
    /\ last.result = RESULT_ERROR_TOO_FEW_SHARDS_PRESENT
    /\ Len(Acquired) = 2 /\ Len(Released) = 2
    /\ Acquired[1].len > 0 /\ Acquired[2].len > 0
    /\ Acquired[1].ptr # Acquired[2].ptr
    /\ outstanding = 0

\* C9: on every exit of encode and reconstruct, raised errors included, each
\* region the call acquired has been released exactly once, so no region is
\* ever outstanding between calls.
C9_ReleaseOnEveryExit ==
    /\ last.op # "none" => ReleasedAsAcquired
    /\ outstanding = 0

\* C10: when the engine aborts during encode or reconstruct the call raises,
\* yields no result code (none of 0..13 in particular), and leaves the
\* caller's shard buffer as it was.
C10_FaultSurfaces ==
    EngineAborted =>
        /\ last.threw
        /\ last.result = NoResult
        /\ last.result \notin 0..13
        /\ last.after = last.before

\* an encode whose engine aborted on a non-empty buffer it was handed
C10_Witness ==
    /\ EngineAborted
    /\ last.op = "encode"
    /\ last.threw
    /\ Len(last.before) > 0
    /\ Len(Acquired) = 1
    /\ dataShards = 1 /\ parityShards = MaxShards

\* the last call returned the number code to its caller
Returned(code) == last.op # "none" /\ ~last.threw /\ last.result = code

\* the end of the data region of the last call's buffer, shardSize * dataShards
LastDataEnd == DataEnd(Len(last.before), dataShards, parityShards)

\* the engine's shard region as the last call's engine operation left it
EngineRegion == Region(last.mem, last.args.ptr, last.args.len)

\* C11: when encode returns OK the caller's buffer keeps its length and every
\* byte of its data region [0, shardSize * dataShards) is as it was before the
\* call; only parity bytes may differ.
C11_EncodeKeepsData ==
    (last.op = "encode" /\ Returned(RESULT_OK)) =>
        /\ Len(last.after) = Len(last.before)
        /\ \A i \in 1..LastDataEnd : last.after[i] = last.before[i]

\* an encode that returned OK and changed the caller's parity while the engine
\* had overwritten the data bytes of its own copy
C11_Witness ==
    /\ last.op = "encode" /\ Returned(RESULT_OK)
    /\ LastDataEnd >= 1
    /\ EngineRegion[1] = ScratchBytes(1)[1]
    /\ last.after[1] = last.before[1]
    /\ last.after # last.before

\* C12: when encode or reconstruct returns a number other than OK, the
\* caller's buffer is byte for byte as it was before the call.
C12_NonOkLeavesBuffer ==
    (last.op # "none" /\ ~last.threw /\ last.result # RESULT_OK) =>
        last.after = last.before

\* a reconstruct that returned a non-OK number after the engine had changed
\* its own copy of a non-empty buffer
C12_Witness ==
    /\ last.op = "reconstruct"
    /\ Returned(RESULT_ERROR_TOO_FEW_SHARDS_PRESENT)
    /\ Len(last.before) > 0
    /\ EngineRegion # last.before
    /\ last.after = last.before

\* C13: when reconstruct returns OK the caller's data region equals the data
\* prefix of the engine's shard region as the engine left it, and the caller's
\* parity region is as it was before the call.
C13_ReconstructCopiesData ==
    (last.op = "reconstruct" /\ Returned(RESULT_OK)) =>
        /\ Len(last.after) = Len(last.before)
        /\ \A i \in 1..LastDataEnd : last.after[i] = EngineRegion[i]
        /\ \A i \in (LastDataEnd + 1)..Len(last.before) : last.after[i] = last.before[i]

\* a reconstruct that returned OK, restored a zeroed data byte in the caller's
\* buffer and left a zeroed parity byte that the engine restored in its copy
C13_Witness ==
    /\ last.op = "reconstruct" /\ Returned(RESULT_OK)
    /\ last.before[1] = 0 /\ last.after[1] = CallerBytes(1)[1]
    /\ \E i \in (LastDataEnd + 1)..Len(last.before) :
            /\ last.after[i] = 0
            /\ EngineRegion[i] = ParityBytes(i)[i]

\* an allocation of the last call aborted, so the call never reached the engine
AllocationFailed ==
    \E i \in DOMAIN last.trace : last.trace[i].op = "malloc-abort"

\* the shards the caller flags as unavailable
Unavailable == {k \in DOMAIN shardsAvailable : ~shardsAvailable[k]}

\* the last call was a reconstruct that reached the engine with a buffer of a
\* valid shape and one flag per shard
ShapedReconstruct ==
    /\ last.op = "reconstruct"
    /\ ~AllocationFailed
    /\ ValidShape(Len(last.before), dataShards, parityShards)
    /\ Len(shardsAvailable) = dataShards + parityShards

\* every shard of the last call's buffer that the caller flags as available
\* is as encode left it
AvailableAsEncoded ==
    \A i \in 1..Len(last.before) :
        shardsAvailable[ShardOf(i, Len(last.before), dataShards, parityShards)]
        => last.before[i] = Codeword(Len(last.before), dataShards, parityShards)[i]

\* C14: a reconstruct of an encoded buffer in which at most parityShards
\* shards, exactly the ones flagged unavailable (possibly none), were
\* overwritten after the encode returns OK and leaves the data region byte for
\* byte as the caller supplied it before the encode.
C14_RoundTrip ==
    (/\ ShapedReconstruct
     /\ Cardinality(Unavailable) <= parityShards
     /\ AvailableAsEncoded)
    => /\ Returned(RESULT_OK)
       /\ \A i \in 1..LastDataEnd :
            last.after[i] = CallerBytes(Len(last.before))[i]

\* a reconstruct that restored a zeroed data shard from a present parity shard
\* that encode had written
C14_Witness ==
    /\ ShapedReconstruct
    /\ AvailableAsEncoded
    /\ Returned(RESULT_OK)
    /\ Unavailable # {}
    /\ \E i \in 1..LastDataEnd :
            last.before[i] = 0 /\ last.after[i] = CallerBytes(i)[i]
    /\ \E j \in (LastDataEnd + 1)..Len(last.before) :
            /\ shardsAvailable[ShardOf(j, Len(last.before), dataShards, parityShards)]
            /\ last.before[j] = ParityBytes(j)[j]

\* C15: a reconstruct on a validly shaped buffer with more than parityShards
\* shards flagged unavailable returns exactly TOO_FEW_SHARDS_PRESENT (10) and
\* leaves the caller's buffer as it was.
C15_TooFewShardsPresent ==
    (ShapedReconstruct /\ Cardinality(Unavailable) > parityShards)
    => /\ Returned(RESULT_ERROR_TOO_FEW_SHARDS_PRESENT)
       /\ last.after = last.before

\* a reconstruct of an encoded buffer with fewer than dataShards shards
\* present, which the engine refused after working on its copy
C15_Witness ==
    /\ ShapedReconstruct
    /\ Cardinality(Unavailable) > parityShards
    /\ Returned(RESULT_ERROR_TOO_FEW_SHARDS_PRESENT)
    /\ last.before = Codeword(Len(last.before), dataShards, parityShards)
    /\ EngineRegion = ScratchBytes(Len(last.before))

\* C17: the number encode or reconstruct returns is the number the engine
\* returned for that call, whichever it is.
C17_CodePropagated ==
    (last.op # "none" /\ ~last.threw) =>
        /\ last.code # NoResult
        /\ last.result = last.code

\* a call that returned a number outside the table, as the engine gave it
C17_Witness ==
    /\ Returned(UnknownCode)
    /\ last.code = UnknownCode

\* the boundary steps of the last call that invoked the engine's operation
EngineSteps ==
    {i \in DOMAIN last.trace : last.trace[i].op = last.op}

\* C18: whatever the buffer length and the shard counts (a length the counts
\* do not divide, no shards at all), an encode whose allocation succeeded
\* invokes the engine once, with the buffer's length and the two counts as
\* given, and ends as the engine's operation ends: with its number or its abort.
C18_NoLocalValidation ==
    (last.op = "encode" /\ ~AllocationFailed) =>
        /\ Cardinality(EngineSteps) = 1
        /\ \A i \in EngineSteps : last.trace[i].len = Len(last.before)
        /\ last.args.len = Len(last.before)
        /\ last.args.d = dataShards
        /\ last.args.p = parityShards
        /\ IF last.threw THEN EngineAborted ELSE last.result = last.code

\* an encode of a buffer whose length the shard counts do not divide, which
\* the engine was handed as it is and refused
C18_Witness ==
    /\ last.op = "encode"
    /\ ~AllocationFailed
    /\ dataShards + parityShards > 0
    /\ Len(last.before) % (dataShards + parityShards) # 0
    /\ Len(last.before) > dataShards + parityShards
    /\ last.args.len = Len(last.before)
    /\ Returned(UnknownCode)

\* C19: any two encodes that returned OK on byte-identical data regions left
\* byte-identical parity regions in the caller's buffer, whatever the parity
\* region held before, wherever the allocator placed the engine's copy,
\* whatever was called in between and whether or not the memory grew.
C19_EncodeDeterministic ==
    \A x, y \in encoded : x.data = y.data => x.parity = y.parity

\* the memory was replaced by a grown one during the last call
GrewDuringCall ==
    \E i, j \in DOMAIN last.trace : last.trace[i].buf # last.trace[j].buf

\* an encode that returned OK on data encoded before: this time the engine's
\* copy lay at another pointer, the memory grew during the call and the
\* buffer already held parity, and the parity it left is the same
C19_Witness ==
    /\ last.op = "encode" /\ Returned(RESULT_OK)
    /\ GrewDuringCall
    /\ LastDataEnd >= 1 /\ LastDataEnd < Len(last.before)
    /\ \E x \in encoded :
        /\ x.data = SubSeq(last.before, 1, LastDataEnd)
        /\ x.ptr # last.args.ptr
        /\ x.parity = SubSeq(last.before, LastDataEnd + 1, Len(last.before))
        /\ x.parity = SubSeq(last.after, LastDataEnd + 1, Len(last.after))

\* the boundary steps of the last call that wrote (copy-in) or read
\* (copy-out) engine memory
MemorySteps ==
    {i \in DOMAIN last.trace : last.trace[i].op \in {"set", "subarray"}}

\* C20: every copy-in and copy-out of encode and reconstruct goes through a
\* view over the buffer that is the engine's memory buffer at that moment,
\* also right after an allocation or an engine operation replaced the buffer.
C20_ViewIsCurrent ==
    \A i \in MemorySteps :
        /\ last.trace[i].view # NULL
        /\ last.trace[i].view = last.trace[i].buf

\* a reconstruct whose engine operation replaced the memory's buffer between
\* the copy-in and the copy-out, each through a view over the buffer of its
\* moment
C20_Witness ==
    /\ last.op = "reconstruct" /\ Returned(RESULT_OK)
    /\ \E i, j \in MemorySteps :
        /\ i < j
        /\ last.trace[i].op = "set" /\ last.trace[j].op = "subarray"
        /\ last.trace[j - 1].op = "reconstruct"
        /\ last.trace[i].view # last.trace[j].view
        /\ last.trace[j].view = last.trace[j - 1].buf

\* the steps of the last call before step i that did op
StepsBefore(i, op) == {j \in 1..(i - 1) : last.trace[j].op = op}

\* the regions the last call must hold when it invokes the engine
RegionsNeeded == IF last.op = "encode" THEN 1 ELSE 2

\* step j of the last call acquired a region and step j + 1 filled it
AcquiredAndFilled(j) ==
    /\ j + 1 <= Len(last.trace)
    /\ last.trace[j + 1].op = "set"
    /\ last.trace[j + 1].ptr = last.trace[j].ptr
    /\ last.trace[j + 1].len = last.trace[j].len

\* C21: in every encode and reconstruct call each acquire is followed at once
\* by the copy-in to the region acquired; the engine is invoked only after
\* every region (one for encode, two for reconstruct) is acquired and filled
\* and before any release; the copy-out, if any, directly follows the engine
\* operation and reads inside the shard region, which is released only later.
C21_StepOrder ==
    /\ \A j \in DOMAIN last.trace :
            last.trace[j].op = "malloc" => AcquiredAndFilled(j)
    /\ \A i \in EngineSteps :
            /\ Cardinality(StepsBefore(i, "malloc")) = RegionsNeeded
            /\ Cardinality(StepsBefore(i, "set")) = RegionsNeeded
            /\ StepsBefore(i, "free") = {}
            /\ StepsBefore(i, "subarray") = {}
            /\ last.trace[i].ptr = last.trace[1].ptr
    /\ \A k \in DOMAIN last.trace :
            last.trace[k].op = "subarray" =>
                /\ k - 1 \in EngineSteps
                /\ StepsBefore(k, "free") = {}
                /\ last.trace[k].ptr >= last.trace[k - 1].ptr
                /\ last.trace[k].ptr + last.trace[k].len
                        <= last.trace[k - 1].ptr + last.trace[k - 1].len
    /\ \A k \in DOMAIN last.trace :
            last.trace[k].op = "free" => StepsBefore(k, last.op) # {}

\* a reconstruct that returned OK after all eight steps: two acquires, each
\* with its copy-in, the engine operation, the copy-out and two releases
C21_Witness ==
    /\ last.op = "reconstruct" /\ Returned(RESULT_OK)
    /\ Len(last.trace) = 8
    /\ last.trace[5].op = "reconstruct"
    /\ last.trace[6].op = "subarray" /\ last.trace[6].len > 0
    /\ last.trace[7].op = "free" /\ last.trace[8].op = "free"

\* the last call was a reconstruct that handed arguments to the engine
ReconstructInvoked ==
    last.op = "reconstruct" /\ EngineSteps # {}

\* C22: reconstruct acquires for the availability vector a region of the
\* vector's own length, writes 1 at index i for true and 0 for false, hands
\* that region's pointer and length to the engine, and never changes the
\* caller's vector.
C22_AvailabilityMarshaled ==
    /\ [](ReconstructInvoked =>
            /\ last.trace[3].op = "malloc"
            /\ last.trace[3].len = Len(shardsAvailable)
            /\ last.args.availPtr = last.trace[3].ptr
            /\ last.args.availLen = Len(shardsAvailable)
            /\ \A i \in 1..Len(shardsAvailable) :
                last.seen[last.args.availPtr + i - 1]
                    = (IF shardsAvailable[i] THEN 1 ELSE 0))
    /\ [][shardsAvailable' = shardsAvailable]_vars

\* a reconstruct with a vector of mixed flags whose length is not the shard
\* count, marshaled byte for byte
C22_Witness ==
    /\ ReconstructInvoked
    /\ Len(shardsAvailable) # dataShards + parityShards
    /\ Len(shardsAvailable) = MaxAvail
    /\ shardsAvailable[1] /\ ~shardsAvailable[2]
    /\ last.args.availLen = MaxAvail
    /\ last.seen[last.args.availPtr] = 1
    /\ last.seen[last.args.availPtr + 1] = 0

\* ------------------------------------------------ claims on fromResponse

\* the fromResponse call has ended
Ended == fromResponse.pc \in {"returned", "threw"}

\* the streaming attempt was made and failed
StreamingFailed ==
    /\ "streaming" \in {fromResponse.attempts[i] : i \in DOMAIN fromResponse.attempts}
    /\ fromResponse.pc # "streaming"
    /\ fromResponse.via # "streaming"

\* buffering the whole body of the response and building from the raw bytes
\* works: the transfer delivers every chunk and the bytes are a module
BufferedWouldSucceed ==
    /\ response.state = "resolved"
    /\ response.failsAt = Never
    /\ response.valid

\* C23: fromResponse tries the streaming construction first when the runtime
\* has it and never otherwise; whenever that attempt fails, the buffered
\* construction is tried next; so a call whose source resolved returns a
\* handle whenever the buffered construction works, and raises only after the
\* buffered construction was tried and could not work.
C23_StreamingFallsBack ==
    /\ fromResponse.attempts # <<>> =>
            (fromResponse.attempts[1] = "streaming") = hasInstantiateStreaming
    /\ StreamingFailed => fromResponse.attempts = <<"streaming", "buffered">>
    /\ (Ended /\ BufferedWouldSucceed) => fromResponse.pc = "returned"
    /\ (fromResponse.pc = "threw" /\ response.state = "resolved") =>
            /\ ~BufferedWouldSucceed
            /\ fromResponse.attempts[Len(fromResponse.attempts)] = "buffered"

\* a response not served as application/wasm: the streaming attempt failed
\* and the call returned a handle built from the buffered bytes
C23_Witness ==
    /\ fromResponse.pc = "returned"
    /\ fromResponse.via = "bytes"
    /\ fromResponse.attempts = <<"streaming", "buffered">>
    /\ ~response.mime

\* C24: no body is read more than once and no read is refused: the streaming
\* attempt reads only the clone, made before that attempt starts, while the
\* response's own body stays unused; the buffered read is the first and only
\* read of the response's own body.
C24_BodyConsumedOnce ==
    /\ \A b \in Bodies : bodies[b].reads <= 1 /\ bodies[b].state # "refused"
    /\ fromResponse.pc = "streaming" =>
            /\ bodies["clone"].made /\ bodies["clone"].reads = 1
            /\ ~BodyUsed("original")
    /\ BodyUsed("clone") => hasInstantiateStreaming
    /\ BodyUsed("original") =
            (fromResponse.attempts # <<>>
                /\ fromResponse.attempts[Len(fromResponse.attempts)] = "buffered")

\* the streaming attempt failed after reading part of the clone, and the
\* buffered read then took the whole of the response's own body
C24_Witness ==
    /\ StreamingFailed
    /\ bodies["clone"].pos >= 1 /\ bodies["clone"].pos < BodyLen
    /\ bodies["clone"].state = "cancelled"
    /\ bodies["original"].state = "read"
    /\ bodies["original"].pos = BodyLen

\* ------------------------------------------ claims on the calls' atomicity

\* a getInstance continuation or a clearInstance ran in this step
LifecycleRan == lifecycleVars' # lifecycleVars

\* a marshaling call took its first step in this step
CallBegan == marshaled' # marshaled

\* the last marshaling call ran to its end: it raised or released last
RanToEnd ==
    /\ last.op # "none"
    /\ last.threw \/ last.trace[Len(last.trace)].op = "free"

C16_MessageTotal ==
    message.called =>
        /\ message.text # ""
        /\ message.code = 0 => message.text = "OK"
        /\ message.code = 1 => message.text = "Too few shards"
        /\ message.code = 2 => message.text = "Too many shards"
        /\ message.code = 3 => message.text = "Too few data shards"
        /\ message.code = 4 => message.text = "Too many data shards"
        /\ message.code = 5 => message.text = "Too few parity shards"
        /\ message.code = 6 => message.text = "Too many parity shards"
        /\ message.code = 7 => message.text = "Too few buffer shards"
        /\ message.code = 8 => message.text = "Too many buffer shards"
        /\ message.code = 9 => message.text = "Incorrect shard size"
        /\ message.code = 10 => message.text = "Too few shards present for reconstruction"
        /\ message.code = 11 => message.text = "Empty shard"
        /\ message.code = 12 => message.text = "Invalid shard flags"
        /\ message.code = 13 => message.text = "Invalid index"
        /\ message.code \notin 0..13 =>
                message.text = "Unknown error code: " \o ToString(message.code)

\* the unknown code of the test suite, answered with the generic text
C16_Witness ==
    /\ message.called
    /\ message.code = UnknownCode
    /\ message.text = "Unknown error code: 999"

====
